---- MODULE Spec2Model ----
(***************************************************************************)
(* A model of package goini (src/goini.go): an Ini instance holding a      *)
(* Store (section name -> key -> value), the loader (LoadFromBytes,        *)
(* LoadFromFile, parseLines) and the typed accessors.                      *)
(*                                                                         *)
(* A Go string is a sequence of one-character strings, one element per     *)
(* byte: "k=v" is <<"k", "=", "v">> and "" is <<>>.  The one exception is  *)
(* the element Blob, which stands for a run of MaxScanTokenSize letter     *)
(* bytes (no whitespace, no '=', no bracket), so that a line as long as    *)
(* the scanner's token limit can be written down.                          *)
(*                                                                         *)
(* The struct field Ini.fileName (src/goini.go:17) is never read or        *)
(* written by any method and is left out of the state.                     *)
(***************************************************************************)
EXTENDS Integers, Sequences, FiniteSets, TLC

VARIABLES
    sections,   \* Ini.sections: section name -> (key -> value)
    buffer,     \* Ini.buffer: the bytes of the last load
    call,       \* the last call of a loading method, and what it returned
    input,      \* the content a caller is about to load (SpecParse, SpecGet)
    ret         \* the last accessor call: its arguments and its result

vars == <<sections, buffer, call, input, ret>>

----------------------------------------------------------------------------
(* Bytes and strings                                                       *)

\* bufio.MaxScanTokenSize = 64 * 1024, the token limit of bufio.NewScanner.
MaxScanTokenSize == 64 * 1024

\* A run of MaxScanTokenSize bytes 'x', as one element.
Blob == "x*65536"

NL == "\n"
CR == "\r"
TAB == "\t"

\* The number of bytes of a string.
RECURSIVE ByteLen(_)
ByteLen(s) ==
    IF s = <<>> THEN 0
    ELSE (IF Head(s) = Blob THEN MaxScanTokenSize ELSE 1) + ByteLen(Tail(s))

\* unicode.IsSpace on the bytes of the model.
IsSpace(c) == c \in {" ", TAB, NL, CR}

RECURSIVE TrimLeft(_)
TrimLeft(s) ==
    IF s # <<>> /\ IsSpace(Head(s)) THEN TrimLeft(Tail(s)) ELSE s

RECURSIVE TrimRight(_)
TrimRight(s) ==
    IF s # <<>> /\ IsSpace(s[Len(s)])
    THEN TrimRight(SubSeq(s, 1, Len(s) - 1))
    ELSE s

\* strings.TrimSpace
TrimSpace(s) == TrimRight(TrimLeft(s))

\* strings.Index, 1-based; 0 when sep does not occur in s.
Index(s, sep) ==
    LET at == {i \in 1..(Len(s) - Len(sep) + 1) :
                  SubSeq(s, i, i + Len(sep) - 1) = sep}
    IN  IF at = {} THEN 0 ELSE CHOOSE i \in at : \A j \in at : i <= j

\* An explode that returns the string itself when it has no character.
explode_OneEmpty(s) == IF s = <<>> THEN << <<>> >> ELSE [i \in 1..Len(s) |-> <<s[i]>>]

\* strings.Split with the empty separator: one element per character, and
\* no element at all for the empty string.
explode(s) == [i \in 1..Len(s) |-> <<s[i]>>]

\* strings.Split with a non-empty separator: cut at each occurrence found
\* scanning from the left, the search resuming after the separator.
RECURSIVE genSplit(_, _)
genSplit(s, sep) ==
    LET i == Index(s, sep)
    IN  IF i = 0 THEN <<s>>
        ELSE <<SubSeq(s, 1, i - 1)>>
                 \o genSplit(SubSeq(s, i + Len(sep), Len(s)), sep)

\* strings.Split
Split(s, sep) == IF sep = <<>> THEN explode(s) ELSE genSplit(s, sep)

----------------------------------------------------------------------------
(* The line scanner: bufio.NewScanner(reader) with the default ScanLines   *)

\* bufio's dropCR: one trailing '\r' is not part of the line.
dropCR(line) ==
    IF line # <<>> /\ line[Len(line)] = CR
    THEN SubSeq(line, 1, Len(line) - 1)
    ELSE line

\* The tokens scanner.Text() delivers while scanner.Scan() is true.  A line
\* is cut at '\n'; a last line without '\n' is delivered when not empty.  A
\* line that does not fit the scanner's buffer of MaxScanTokenSize bytes
\* makes Scan return false (ErrTooLong): that line and all lines after it
\* are never delivered.
RECURSIVE ScanLines(_)
ScanLines(data) ==
    IF data = <<>> THEN <<>>
    ELSE LET i    == Index(data, <<NL>>)
             line == IF i = 0 THEN data ELSE SubSeq(data, 1, i - 1)
             rest == IF i = 0 THEN <<>> ELSE SubSeq(data, i + 1, Len(data))
         IN  IF ByteLen(line) >= MaxScanTokenSize
             THEN <<>>
             ELSE <<dropCR(line)>> \o ScanLines(rest)

----------------------------------------------------------------------------
(* The Store                                                               *)

\* make(map[string]string): a section without keys.
NoItems == [k \in {} |-> <<>>]

\* make(map[string]KeyValue): a Store without sections.
NoSections == [s \in {} |-> NoItems]

\* i.sections[name] = KeyValue{Item: make(map[string]string)}
PutSection(secs, name) ==
    [s \in (DOMAIN secs) \cup {name} |-> IF s = name THEN NoItems ELSE secs[s]]

\* i.sections[section].Item[key] = value
PutItem(secs, section, key, value) ==
    [secs EXCEPT ![section] =
        [k \in (DOMAIN @) \cup {key} |-> IF k = key THEN value ELSE @[k]]]

\* clear() without the new map: the sections stay.
clear_Keep(secs) == secs

\* Ini.clear: the sections it leaves.
clear(secs) == NoSections

\* The check of the split as len(pairs) >= 2.
onePair_AtLeastTwo(pairs) == Len(pairs) >= 2

\* "Only lines with one '=' are allowed"
onePair(pairs) == Len(pairs) = 2

\* The section header branch of the loop of parseLines: the Store after a
\* valid header named name.
openSection(secs, name) ==
    IF name \in DOMAIN secs THEN secs ELSE PutSection(secs, name)

\* The loop of parseLines over the scanned lines.
RECURSIVE parseLoop(_, _, _)
parseLoop(tokens, secs, currentSection) ==
    IF tokens = <<>> THEN secs
    ELSE
      LET line == TrimSpace(Head(tokens))
          rest == Tail(tokens)
      IN
        IF line = <<>> \/ line[1] = "#" \/ line[1] = ";"
        THEN parseLoop(rest, secs, currentSection)
        ELSE IF line[1] = "["
        THEN IF line[Len(line)] # "]"
             THEN parseLoop(rest, secs, currentSection)
             ELSE LET name == SubSeq(line, 2, Len(line) - 1)
                  IN  parseLoop(rest, openSection(secs, name), name)
        ELSE LET pairs == Split(line, <<"=">>)
             IN  IF ~onePair(pairs)
                 THEN parseLoop(rest, secs, currentSection)
                 ELSE parseLoop(rest,
                                PutItem(secs, currentSection,
                                        TrimSpace(pairs[1]),
                                        TrimSpace(pairs[2])),
                                currentSection)

\* Ini.parseLines: the Store it builds from the Store secs and the buffer.
parseLines(secs, buf) ==
    parseLoop(ScanLines(buf), PutSection(secs, <<>>), <<>>)

----------------------------------------------------------------------------
(* The accessors that read the Store, as functions of the current state    *)

\* Ini.KeyExists
KeyExists(section, key) ==
    section \in DOMAIN sections /\ key \in DOMAIN sections[section]

\* Ini.SectionExists
SectionExists(section) == section \in DOMAIN sections

\* Ini.GetSectionValues: the slices it can return.  The order is the
\* iteration order of a Go map, which is not specified: every order is a
\* possible result.
GetSectionValues ==
    {r \in [1..Cardinality(DOMAIN sections) -> DOMAIN sections] :
        \A a, b \in DOMAIN r : a # b => r[a] # r[b]}

\* Ini.getString: a missing section or a missing key reads as "".
getString(section, key) ==
    IF section \in DOMAIN sections /\ key \in DOMAIN sections[section]
    THEN sections[section][key]
    ELSE <<>>

\* Ini.GetString
GetString(section, key, def) ==
    LET result == getString(section, key)
    IN  IF result = <<>> THEN def ELSE result

----------------------------------------------------------------------------
(* Package strconv, as the accessors call it                               *)

DecDigits == <<"0", "1", "2", "3", "4", "5", "6", "7", "8", "9">>

LowerLetters ==
    <<"a", "b", "c", "d", "e", "f", "g", "h", "i", "j", "k", "l", "m",
      "n", "o", "p", "q", "r", "s", "t", "u", "v", "w", "x", "y", "z">>

UpperLetters ==
    <<"A", "B", "C", "D", "E", "F", "G", "H", "I", "J", "K", "L", "M",
      "N", "O", "P", "Q", "R", "S", "T", "U", "V", "W", "X", "Y", "Z">>

\* The position of c in seq, 0 when it is not in it.
PosIn(seq, c) ==
    IF \E i \in DOMAIN seq : seq[i] = c
    THEN CHOOSE i \in DOMAIN seq : seq[i] = c
    ELSE 0

\* strconv's lower(c): an upper-case letter as its lower-case letter.
lower(c) ==
    IF PosIn(UpperLetters, c) > 0 THEN LowerLetters[PosIn(UpperLetters, c)] ELSE c

\* The value of c as a digit ('0'..'9', then 'a'..'z' from 10 on in either
\* case); -1 when c is neither a digit nor a letter.
DigitVal(c) ==
    IF PosIn(DecDigits, c) > 0 THEN PosIn(DecDigits, c) - 1
    ELSE IF PosIn(LowerLetters, lower(c)) > 0
    THEN PosIn(LowerLetters, lower(c)) + 9
    ELSE -1

\* strconv.underscoreOK from position i on, saw being the kind of the last
\* character: "^" none yet, "0" a digit, "_" an underscore, "!" another.
RECURSIVE underscoreScan(_, _, _, _)
underscoreScan(s, i, hex, saw) ==
    IF i > Len(s) THEN saw # "_"
    ELSE IF \/ (DigitVal(s[i]) >= 0 /\ DigitVal(s[i]) <= 9)
            \/ (hex /\ DigitVal(s[i]) >= 10 /\ DigitVal(s[i]) <= 15)
    THEN underscoreScan(s, i + 1, hex, "0")
    ELSE IF s[i] = "_"
    THEN saw = "0" /\ underscoreScan(s, i + 1, hex, "_")
    ELSE saw # "_" /\ underscoreScan(s, i + 1, hex, "!")

\* strconv.underscoreOK: an underscore only between digits, or between a
\* base prefix and a digit.
underscoreOK(s0) ==
    LET s == IF s0 # <<>> /\ s0[1] \in {"-", "+"} THEN Tail(s0) ELSE s0
        prefix == Len(s) >= 2 /\ s[1] = "0" /\ lower(s[2]) \in {"b", "o", "x"}
    IN  IF prefix
        THEN underscoreScan(s, 3, lower(s[2]) = "x", "0")
        ELSE underscoreScan(s, 1, FALSE, "^")

\* A 32-bit unsigned value in two 16-bit halves: hi * 65536 + lo.
Half == 256 * 256

U32(hi, lo) == [hi |-> hi, lo |-> lo]

NoUint == [ok |-> FALSE, hi |-> 0, lo |-> 0]

\* The digit loop of strconv.ParseUint in base 0 mode with bitSize 32: an
\* underscore is skipped, a character that is no digit of the base is a
\* syntax error, a value above 1<<32 - 1 is a range error.
RECURSIVE uintDigits(_, _, _, _)
uintDigits(s, base, hi, lo) ==
    IF s = <<>> THEN [ok |-> TRUE, hi |-> hi, lo |-> lo]
    ELSE IF Head(s) = "_" THEN uintDigits(Tail(s), base, hi, lo)
    ELSE LET d == DigitVal(Head(s))
             lo2 == lo * base + d
             hi2 == hi * base + (lo2 \div Half)
         IN  IF d < 0 \/ d >= base THEN NoUint
             ELSE IF hi2 >= Half THEN NoUint
             ELSE uintDigits(Tail(s), base, hi2, lo2 % Half)

\* strconv.ParseUint(s, 0, 32): ok is err == nil.
ParseUint(s) ==
    IF s = <<>> THEN NoUint
    ELSE
      LET pre ==
            IF s[1] # "0" THEN [base |-> 10, skip |-> 0]
            ELSE IF Len(s) >= 3 /\ lower(s[2]) = "b" THEN [base |-> 2, skip |-> 2]
            ELSE IF Len(s) >= 3 /\ lower(s[2]) = "o" THEN [base |-> 8, skip |-> 2]
            ELSE IF Len(s) >= 3 /\ lower(s[2]) = "x" THEN [base |-> 16, skip |-> 2]
            ELSE [base |-> 8, skip |-> 1]
          r == uintDigits(SubSeq(s, pre.skip + 1, Len(s)), pre.base, 0, 0)
      IN  IF ~r.ok THEN NoUint
          ELSE IF (\E i \in 1..Len(s) : s[i] = "_") /\ ~underscoreOK(s) THEN NoUint
          ELSE r

NoInt == [ok |-> FALSE, val |-> 0]

\* strconv.ParseInt(s, 0, 32): ok is err == nil.
ParseInt(s) ==
    IF s = <<>> THEN NoInt
    ELSE
      LET neg == s[1] = "-"
          un  == ParseUint(IF s[1] \in {"+", "-"} THEN Tail(s) ELSE s)
      IN  IF ~un.ok THEN NoInt
          ELSE IF ~neg /\ un.hi >= Half \div 2 THEN NoInt
          ELSE IF neg /\ (un.hi > Half \div 2 \/ (un.hi = Half \div 2 /\ un.lo > 0))
          THEN NoInt
          ELSE IF neg /\ un.hi = Half \div 2
          THEN [ok |-> TRUE, val |-> (0 - 2147483647) - 1]
          ELSE [ok |-> TRUE,
                val |-> IF neg THEN 0 - (un.hi * Half + un.lo)
                               ELSE un.hi * Half + un.lo]

NoBool == [ok |-> FALSE, val |-> FALSE]

\* strconv.ParseBool
ParseBool(s) ==
    IF s \in { <<"1">>, <<"t">>, <<"T">>, <<"T", "R", "U", "E">>,
               <<"t", "r", "u", "e">>, <<"T", "r", "u", "e">> }
    THEN [ok |-> TRUE, val |-> TRUE]
    ELSE IF s \in { <<"0">>, <<"f">>, <<"F">>, <<"F", "A", "L", "S", "E">>,
                    <<"f", "a", "l", "s", "e">>, <<"F", "a", "l", "s", "e">> }
    THEN [ok |-> TRUE, val |-> FALSE]
    ELSE NoBool

\* A float is kept as the exact value read, not as its bits: kind is
\* "num", "inf" or "nan"; a number is 0.digits * 10^dp (base 10) or
\* 0x0.digits * 2^dp (base 16), its digits without leading and trailing
\* zeros, and zero has no digit.  The rounding of the digits to the 53 or 24
\* bits of the mantissa is not represented; the overflow to infinity and the
\* underflow to zero are.
Num(neg, base, digits, dp) ==
    [kind |-> "num", neg |-> neg, base |-> base, digits |-> digits, dp |-> dp]

Inf(neg) == [kind |-> "inf", neg |-> neg, base |-> 10, digits |-> <<>>, dp |-> 0]

NaN == [kind |-> "nan", neg |-> FALSE, base |-> 10, digits |-> <<>>, dp |-> 0]

NoFloat == [ok |-> FALSE, val |-> Num(FALSE, 10, <<>>, 0)]

\* The digits a, padded with zeros, are at least the digits b.
GeqDigits(a, b) ==
    LET at(i) == IF i <= Len(a) THEN a[i] ELSE 0
        diff == {i \in 1..Len(b) : at(i) # b[i]}
    IN  IF diff = {} THEN TRUE
        ELSE LET m == CHOOSE i \in diff : \A j \in diff : i <= j
             IN  at(m) > b[m]

\* The first digits of the least decimal that rounds to an infinite
\* float64, 0.1797693134862315807937...e309, and float32,
\* 0.34028235677973366...e39; and of the greatest that rounds to zero,
\* 0.24703282292062327...e-323 and 0.7006492321624085...e-45.
Over64 == <<1, 7, 9, 7, 6, 9, 3, 1, 3, 4, 8, 6, 2, 3, 1, 5, 8, 0, 7, 9, 3, 7>>
Over32 == <<3, 4, 0, 2, 8, 2, 3, 5, 6, 7, 7, 9, 7, 3, 3, 6, 6>>
Under64 == <<2, 4, 7, 0, 3, 2, 8, 2, 2, 9, 2, 0, 6, 2, 3, 2, 7>>
Under32 == <<7, 0, 0, 6, 4, 9, 2, 3, 2, 1, 6, 2, 4, 0, 8, 5>>

\* The number of bits of a hexadecimal digit from 1 to 15.
BitLen(d) == IF d >= 8 THEN 4 ELSE IF d >= 4 THEN 3 ELSE IF d >= 2 THEN 2 ELSE 1

\* The number v, not zero, is 2^maxExp or more in magnitude once rounded:
\* over the decimal threshold, or a hexadecimal value of more than maxExp
\* bits before the point.
TooBig(v, overDigits, overDp, maxExp) ==
    IF v.base = 10
    THEN v.dp > overDp \/ (v.dp = overDp /\ GeqDigits(v.digits, overDigits))
    ELSE v.dp - (4 - BitLen(v.digits[1])) > maxExp

\* The number v, not zero, rounds to zero.
TooSmall(v, underDigits, underDp, minExp) ==
    IF v.base = 10
    THEN v.dp < underDp \/ (v.dp = underDp /\ ~GeqDigits(v.digits, underDigits))
    ELSE v.dp - (4 - BitLen(v.digits[1])) < minExp

\* strconv.special: "inf" and "infinity" with an optional sign, "nan"
\* without, in any case.
special(s) ==
    LET low == [i \in 1..Len(s) |-> lower(s[i])]
        signed == low # <<>> /\ low[1] \in {"+", "-"}
        word == IF signed THEN Tail(low) ELSE low
    IN  IF word \in {<<"i", "n", "f">>, <<"i", "n", "f", "i", "n", "i", "t", "y">>}
        THEN [ok |-> TRUE, val |-> Inf(signed /\ low[1] = "-")]
        ELSE IF low = <<"n", "a", "n">>
        THEN [ok |-> TRUE, val |-> NaN]
        ELSE NoFloat

\* The mantissa loop of strconv.readFloat from position i: the digits read
\* (leading zeros included), the number of digits before the point (-1
\* without a point), and the position of the first character not read.
RECURSIVE mantissa(_, _, _, _, _)
mantissa(s, i, hex, digits, point) ==
    LET stop == [i |-> i, digits |-> digits, point |-> point]
    IN  IF i > Len(s) THEN stop
        ELSE IF s[i] = "_" THEN mantissa(s, i + 1, hex, digits, point)
        ELSE IF s[i] = "."
        THEN IF point >= 0 THEN stop
             ELSE mantissa(s, i + 1, hex, digits, Len(digits))
        ELSE IF \/ (DigitVal(s[i]) >= 0 /\ DigitVal(s[i]) <= 9)
                \/ (hex /\ DigitVal(s[i]) >= 10 /\ DigitVal(s[i]) <= 15)
        THEN mantissa(s, i + 1, hex, Append(digits, DigitVal(s[i])), point)
        ELSE stop

\* The digits of the exponent from position i: underscores are skipped and
\* the exponent stops growing at 10000.
RECURSIVE expDigits(_, _, _)
expDigits(s, i, e) ==
    IF i > Len(s) THEN [i |-> i, e |-> e]
    ELSE IF s[i] = "_" THEN expDigits(s, i + 1, e)
    ELSE IF DigitVal(s[i]) >= 0 /\ DigitVal(s[i]) <= 9
    THEN expDigits(s, i + 1, IF e < 10000 THEN e * 10 + DigitVal(s[i]) ELSE e)
    ELSE [i |-> i, e |-> e]

\* The optional exponent of strconv.readFloat at position i: 'e' (base 10)
\* or 'p' (base 16, where it is required), a sign, and at least one digit.
exponent(s, i, hex) ==
    LET bad == [ok |-> FALSE, i |-> i, e |-> 0]
    IN  IF i <= Len(s) /\ lower(s[i]) = (IF hex THEN "p" ELSE "e")
        THEN LET signed == i + 1 <= Len(s) /\ s[i + 1] \in {"+", "-"}
                 j == IF signed THEN i + 2 ELSE i + 1
             IN  IF j > Len(s) \/ DigitVal(s[j]) < 0 \/ DigitVal(s[j]) > 9
                 THEN bad
                 ELSE LET r == expDigits(s, j, 0)
                      IN  [ok |-> TRUE, i |-> r.i,
                           e |-> IF signed /\ s[i + 1] = "-" THEN 0 - r.e ELSE r.e]
        ELSE IF hex THEN bad
        ELSE [ok |-> TRUE, i |-> i, e |-> 0]

\* The digits without their leading zeros, and without their trailing ones.
RECURSIVE dropZerosLeft(_)
dropZerosLeft(d) == IF d # <<>> /\ Head(d) = 0 THEN dropZerosLeft(Tail(d)) ELSE d

RECURSIVE dropZerosRight(_)
dropZerosRight(d) ==
    IF d # <<>> /\ d[Len(d)] = 0
    THEN dropZerosRight(SubSeq(d, 1, Len(d) - 1))
    ELSE d

\* strconv.readFloat and the value it stands for: ok when s as a whole is a
\* decimal or hexadecimal floating-point literal.
readFloat(s) ==
    IF s = <<>> THEN NoFloat
    ELSE
      LET neg == s[1] = "-"
          i0  == IF s[1] \in {"+", "-"} THEN 2 ELSE 1
          hex == i0 + 2 <= Len(s) /\ s[i0] = "0" /\ lower(s[i0 + 1]) = "x"
          m   == mantissa(s, IF hex THEN i0 + 2 ELSE i0, hex, <<>>, -1)
          x   == exponent(s, m.i, hex)
          lead == dropZerosLeft(m.digits)
          pt  == (IF m.point < 0 THEN Len(m.digits) ELSE m.point)
                     - (Len(m.digits) - Len(lead))
          ds  == dropZerosRight(lead)
      IN  IF m.digits = <<>> \/ ~x.ok \/ x.i # Len(s) + 1 THEN NoFloat
          ELSE IF (\E i \in 1..Len(s) : s[i] = "_") /\ ~underscoreOK(s) THEN NoFloat
          ELSE IF ds = <<>> THEN [ok |-> TRUE, val |-> Num(neg, 10, <<>>, 0)]
          ELSE [ok |-> TRUE,
                val |-> Num(neg, IF hex THEN 16 ELSE 10, ds,
                            (IF hex THEN 4 * pt ELSE pt) + x.e)]

\* strconv.ParseFloat(s, 10): a bitSize other than 32 parses a float64.  A
\* value that rounds to an infinite float64 is a range error; one that
\* rounds to zero is zero.
ParseFloat(s) ==
    IF special(s).ok THEN special(s)
    ELSE LET r == readFloat(s)
         IN  IF ~r.ok \/ r.val.digits = <<>> THEN r
             ELSE IF TooBig(r.val, Over64, 309, 1024) THEN NoFloat
             ELSE IF TooSmall(r.val, Under64, -323, -1074)
             THEN [ok |-> TRUE, val |-> Num(r.val.neg, 10, <<>>, 0)]
             ELSE r

\* The conversion float32(result) of a float64.
float32(v) ==
    IF v.kind # "num" \/ v.digits = <<>> THEN v
    ELSE IF TooBig(v, Over32, 39, 128) THEN Inf(v.neg)
    ELSE IF TooSmall(v, Under32, -45, -149) THEN Num(v.neg, 10, <<>>, 0)
    ELSE v

\* Ini.GetInt
GetInt(section, key, def) ==
    LET r == ParseInt(getString(section, key))
    IN  IF ~r.ok THEN def ELSE r.val

\* Ini.GetUint
GetUint(section, key, def) ==
    LET r == ParseUint(getString(section, key))
    IN  IF ~r.ok THEN def ELSE U32(r.hi, r.lo)

\* GetFloat without the check of err: the parsed value is returned, which
\* is 0 after a syntax error.
GetFloat_IgnoreErr(section, key, def) ==
    float32(ParseFloat(getString(section, key)).val)

\* Ini.GetFloat
GetFloat(section, key, def) ==
    LET r == ParseFloat(getString(section, key))
    IN  IF ~r.ok THEN def ELSE float32(r.val)

\* Ini.GetBool
GetBool(section, key, def) ==
    LET r == ParseBool(getString(section, key))
    IN  IF ~r.ok THEN def ELSE r.val

\* GetStringSlice without the loop that sets the default.
GetStringSlice_NoDefault(section, key, def, sep) ==
    Split(getString(section, key), sep)

\* Ini.GetStringSlice
GetStringSlice(section, key, def, sep) ==
    LET result == Split(getString(section, key), sep)
    IN  IF sep = <<>> \/ Len(result) = 0
        THEN result
        ELSE [i \in 1..Len(result) |->
                 IF result[i] = <<>> THEN def ELSE result[i]]

----------------------------------------------------------------------------
(* Inputs                                                                  *)

\* The sequences over S of length at most n.
SeqsUpTo(S, n) == UNION {[1..m -> S] : m \in 0..n}

\* The lines joined by '\n'.
RECURSIVE Join(_)
Join(lines) ==
    IF lines = <<>> THEN <<>>
    ELSE IF Len(lines) = 1 THEN lines[1]
    ELSE lines[1] \o <<NL>> \o Join(Tail(lines))

\* The most lines of a content loaded in Spec.
LoadLines == 2

\* The lines the contents of Spec are made of.
MainLines ==
    { <<"[", "s", "]">>,                        \* [s]
      <<"[", "t", "]">>,                        \* [t]
      <<"k", "=", "v">>,                        \* k=v
      <<" ", "k", " ", "=", " ", "w", " ">>,    \*  k = w
      <<"k", "=", "v", "=", "w">>,              \* k=v=w
      <<"j", "=", Blob>> }                      \* j=xxx... (64 KiB)

Contents == {Join(ls) : ls \in SeqsUpTo(MainLines, LoadLines)}

Paths == {"./test.ini"}

\* What os.ReadFile can return: an error, or the bytes of the file.
ReadOutcomes ==
    {[ok |-> FALSE, data |-> <<>>]} \cup {[ok |-> TRUE, data |-> b] : b \in Contents}

----------------------------------------------------------------------------
(* The instance and its loading methods                                    *)

NoRet == [op |-> "none"]

\* NewIni: new(Ini), then clear().
NewIni ==
    /\ sections = clear(NoSections)
    /\ buffer = <<>>
    /\ call = [op |-> "NewIni", err |-> FALSE, pre |-> {}]

\* The body of Ini.LoadFromBytes: clear(), i.buffer = buffer, parseLines().
load(b) ==
    /\ sections' = parseLines(clear(sections), b)
    /\ buffer' = b

\* Ini.LoadFromBytes.  call.pre remembers the sections held before the call.
LoadFromBytes(b) ==
    /\ load(b)
    /\ call' = [op |-> "LoadFromBytes", err |-> FALSE, pre |-> DOMAIN sections]

\* LoadFromFile with clear() called before the file is read.
LoadFromFile_ClearFirst(path, read) ==
    /\ IF ~read.ok
       THEN sections' = clear(sections) /\ buffer' = <<>>
       ELSE load(read.data)
    /\ call' = [op |-> "LoadFromFile", err |-> ~read.ok, pre |-> DOMAIN sections]

\* Ini.LoadFromFile, read being what os.ReadFile(path) returns.
LoadFromFile(path, read) ==
    /\ IF ~read.ok
       THEN UNCHANGED <<sections, buffer>>
       ELSE load(read.data)
    /\ call' = [op |-> "LoadFromFile", err |-> ~read.ok, pre |-> DOMAIN sections]

Init ==
    /\ NewIni
    /\ input = <<>>
    /\ ret = NoRet

Next ==
    \/ \E b \in Contents :
          LoadFromBytes(b) /\ UNCHANGED <<input, ret>>
    \/ \E path \in Paths, read \in ReadOutcomes :
          LoadFromFile(path, read) /\ UNCHANGED <<input, ret>>

Spec == Init /\ [][Next]_vars

----------------------------------------------------------------------------
(* The parser as a function of the content: a caller creates an instance,  *)
(* loads one content, and lists the sections.                              *)

\* The most lines of a content loaded in SpecParse.
MaxLines == 3

\* The lines the contents of SpecParse are made of.
ParseLineSet ==
    { <<>>,                                     \* (blank)
      <<"#", "k", "=", "v">>,                   \* #k=v
      <<";", "[", "t", "]">>,                   \* ;[t]
      <<"[", "s", "]">>,                        \* [s]
      <<" ", "[", "t", "]", " ">>,              \*  [t]
      <<"[", "s">>,                             \* [s
      <<"k", "=", "v">>,                        \* k=v
      <<" ", "k", " ", "=", TAB, "w", " ">>,    \*  k =\tw
      <<"j", "=", "v", CR>>,                    \* j=v\r
      <<"k", "=", "v", "=", "w">>,              \* k=v=w
      <<"k">>,                                  \* k
      <<"k", "=">>,                             \* k=
      <<"=", "v">>,                             \* =v
      <<"[", "]">>,                             \* []
      <<"[", "s", "]", "=", "v">>,              \* [s]=v
      <<"[", "j", "=", "v", "]">>,              \* [j=v]
      <<"j", "=", Blob>> }                      \* j=xxx... (64 KiB)

ParseInputs == SeqsUpTo(ParseLineSet, MaxLines)

\* Ini.GetSectionValues, called: one of its possible results is returned.
CallGetSectionValues ==
    /\ \E r \in GetSectionValues : ret' = [op |-> "GetSectionValues", val |-> r]
    /\ UNCHANGED <<sections, buffer, call, input>>

\* The caller loads its content into the new instance.
ParseLoad ==
    /\ call.op = "NewIni"
    /\ LoadFromBytes(Join(input))
    /\ ret' = NoRet
    /\ UNCHANGED input

InitParse ==
    /\ NewIni
    /\ input \in ParseInputs
    /\ ret = NoRet

NextParse ==
    \/ ParseLoad
    \/ CallGetSectionValues

SpecParse == InitParse /\ [][NextParse]_vars

----------------------------------------------------------------------------
(* What the claims say of a content, line by line.  input is the sequence  *)
(* of the lines of the loaded content.                                     *)

Loaded == call.op = "LoadFromBytes"

CountEq(l) == Cardinality({i \in 1..Len(l) : l[i] = "="})

\* A valid header line: trimmed, it starts with '[' and ends with ']'.
IsHeader(l) ==
    LET t == TrimSpace(l)
    IN  t # <<>> /\ t[1] = "[" /\ t[Len(t)] = "]"

\* The text between the brackets of a valid header line.
HeaderName(l) ==
    LET t == TrimSpace(l) IN SubSeq(t, 2, Len(t) - 1)

\* A valid key=value line: trimmed, it is not blank, does not start with
\* '#', ';' or '[', and contains exactly one '='.
IsAssignment(l) ==
    LET t == TrimSpace(l)
    IN  t # <<>> /\ t[1] \notin {"#", ";", "["} /\ CountEq(t) = 1

EqAt(l) == CHOOSE i \in 1..Len(l) : l[i] = "="

\* The parts left and right of '=', outer whitespace trimmed.
KeyOf(l) == TrimSpace(SubSeq(l, 1, EqAt(l) - 1))
ValueOf(l) == TrimSpace(SubSeq(l, EqAt(l) + 1, Len(l)))

\* The section current at line i: the name of the last valid header before
\* it, "" when there is none.
SectionAt(lines, i) ==
    LET hs == {h \in 1..(i - 1) : IsHeader(lines[h])}
    IN  IF hs = {} THEN <<>>
        ELSE HeaderName(lines[CHOOSE h \in hs : \A g \in hs : g <= h])

\* Line j assigns the key of line i in the section of line i.
SameTarget(lines, i, j) ==
    /\ IsAssignment(lines[i]) /\ IsAssignment(lines[j])
    /\ SectionAt(lines, i) = SectionAt(lines, j)
    /\ KeyOf(lines[i]) = KeyOf(lines[j])

\* Line i is the last assignment to its key in its section.
LastAssignment(lines, i) ==
    /\ IsAssignment(lines[i])
    /\ \A j \in (i + 1)..Len(lines) : ~SameTarget(lines, i, j)

\* No line reaches the scanner's token limit.
NoLongLine(lines) ==
    \A i \in 1..Len(lines) : ByteLen(lines[i]) < MaxScanTokenSize

\* Every valid key=value line that is the last assignment to its key in its
\* section is read back by GetString.
AssignmentsReadBack(lines) ==
    \A i \in 1..Len(lines) :
        LastAssignment(lines, i) =>
            GetString(SectionAt(lines, i), KeyOf(lines[i]), <<>>)
                = ValueOf(lines[i])

\* C2: for every valid key=value line of the loaded content that is the
\* last assignment to its key in its section, GetString(section, key, "")
\* is the trimmed value.
C2_EveryAssignmentReadBack == Loaded => AssignmentsReadBack(input)

\* C2, for the contents no line of which reaches the scanner's token limit.
C2_ShortLinesReadBack ==
    (Loaded /\ NoLongLine(input)) => AssignmentsReadBack(input)

\* The elements of a slice.
Elems(r) == {r[i] : i \in DOMAIN r}

\* The names of the valid header lines.
HeaderNames(lines) ==
    {HeaderName(lines[i]) : i \in {h \in 1..Len(lines) : IsHeader(lines[h])}}

\* The slice holds "" and the name of every valid header line, each once,
\* and nothing else.
ListsSectionsOf(r, lines) ==
    /\ Elems(r) = {<<>>} \cup HeaderNames(lines)
    /\ Len(r) = Cardinality(Elems(r))

\* C5: after LoadFromBytes(content), GetSectionValues() returns, each once
\* and in any order, "" and the text between the brackets of every valid
\* header line of content.
C5_ListsEveryHeader ==
    (Loaded /\ ret.op = "GetSectionValues") => ListsSectionsOf(ret.val, input)

\* C5, for the contents no line of which reaches the scanner's token limit.
C5_ShortLinesListed ==
    (Loaded /\ NoLongLine(input) /\ ret.op = "GetSectionValues")
        => ListsSectionsOf(ret.val, input)

\* Line m is assigned under a header that a later line repeats: the last
\* valid header before m names the section of m, and a valid header after
\* m names it again.
UnderRepeatedHeader(lines, m) ==
    /\ IsAssignment(lines[m])
    /\ \E h \in 1..(m - 1) : IsHeader(lines[h])
    /\ \E h \in (m + 1)..Len(lines) :
          IsHeader(lines[h]) /\ HeaderName(lines[h]) = SectionAt(lines, m)

\* The value of the last assignment to the key of line m in its section.
LastValue(lines, m) ==
    LET js == {j \in m..Len(lines) : SameTarget(lines, m, j)}
    IN  ValueOf(lines[CHOOSE j \in js : \A g \in js : g <= j])

\* Every key assigned under a header that is repeated later is still
\* present, with the value of the last assignment to it in that section.
RepeatedHeaderKeeps(lines) ==
    \A m \in 1..Len(lines) :
        UnderRepeatedHeader(lines, m) =>
            /\ KeyExists(SectionAt(lines, m), KeyOf(lines[m]))
            /\ getString(SectionAt(lines, m), KeyOf(lines[m]))
                   = LastValue(lines, m)

\* C6: a header repeated later in the input reopens the section: the keys
\* assigned under the earlier occurrence are still present after the load,
\* each with the value of the last assignment to it in that section.
C6_RepeatedHeaderReopens == Loaded => RepeatedHeaderKeeps(input)

\* C6, for the contents no line of which reaches the scanner's token limit.
C6_ShortLinesReopen ==
    (Loaded /\ NoLongLine(input)) => RepeatedHeaderKeeps(input)

\* The lines without line i.
RemoveAt(lines, i) ==
    SubSeq(lines, 1, i - 1) \o SubSeq(lines, i + 1, Len(lines))

\* C3: a line with zero or more than one '=' contributes no entry to the
\* Store.  Every key/value pair of every section is the trimmed key and
\* value of a line with exactly one '=' in that section; and the Store is
\* the one the content has without the line, for every such line that is
\* not a header and that the scanner can deliver.
C3_MalformedContributeNothing ==
    Loaded =>
        /\ \A sec \in DOMAIN sections : \A k \in DOMAIN sections[sec] :
              \E i \in 1..Len(input) :
                  /\ IsAssignment(input[i])
                  /\ CountEq(input[i]) = 1
                  /\ SectionAt(input, i) = sec
                  /\ KeyOf(input[i]) = k
                  /\ ValueOf(input[i]) = sections[sec][k]
        /\ \A i \in 1..Len(input) :
              (/\ CountEq(input[i]) # 1
               /\ ~IsHeader(input[i])
               /\ ByteLen(input[i]) < MaxScanTokenSize)
                  => sections = parseLines(NoSections,
                                           Join(RemoveAt(input, i)))

\* C3's case: a=b=c alone was loaded, and its key does not exist.
C3_Witness ==
    /\ Loaded
    /\ \E i \in 1..Len(input) :
          /\ input[i] = <<"k", "=", "v", "=", "w">>
          /\ ~KeyExists(SectionAt(input, i), <<"k">>)

----------------------------------------------------------------------------
(* The claims about the loading methods, under Spec                        *)

\* The Store a fresh NewIni() instance has after LoadFromBytes(b).
FreshStore(b) == parseLines(NoSections, b)

\* C1: after LoadFromBytes(B), whatever was loaded before, the Store is the
\* one a fresh instance has after LoadFromBytes(B).
C1_LoadReplaces ==
    call.op = "LoadFromBytes" => sections = FreshStore(buffer)

\* C1's case: the load dropped a section the instance held before it.
C1_Witness ==
    /\ call.op = "LoadFromBytes"
    /\ \E s \in call.pre : ~SectionExists(s)

\* C4: in every state, that before any load included, GetSectionValues()
\* contains "" and SectionExists("") is true.
C4_EmptySectionAlways ==
    /\ SectionExists(<<>>)
    /\ \A r \in GetSectionValues : <<>> \in Elems(r)

\* C4, for the states a successful load leaves.
C4_EmptySectionAfterLoad ==
    (call.op = "LoadFromBytes" \/ (call.op = "LoadFromFile" /\ ~call.err))
        => /\ SectionExists(<<>>)
           /\ \A r \in GetSectionValues : <<>> \in Elems(r)

\* C10: a LoadFromFile call that fails to read the file returns an error
\* and changes neither the Store nor the buffer.
C10_FailedReadKeepsStore ==
    [][(call'.op = "LoadFromFile" /\ call'.err)
           => (sections' = sections /\ buffer' = buffer)]_vars

\* C10's case: a read failed on an instance that holds a loaded key.
C10_Witness ==
    /\ call.op = "LoadFromFile"
    /\ call.err
    /\ KeyExists(<<"s">>, <<"k">>)
    /\ GetString(<<"s">>, <<"k">>, <<>>) = <<"v">>

----------------------------------------------------------------------------
(* The accessors: a caller creates an instance, loads "[s]" and "k=<raw>", *)
(* and reads through the accessors, before the load and after it.          *)

\* The longest raw value made of the characters of RawAlphabet.
MaxRawLen == 2

RawAlphabet == {"0", "1", "-", "e", ",", "t"}

\* Raw values of the tests of the repository and of the limits of strconv.
RawSamples ==
    { <<"0", "x", "f", "f", "0", "0", "f", "f">>,             \* 0xff00ff
      <<"1", ".", "3", "3">>,                                 \* 1.33
      <<"N", "O", "T", " ", "A", " ", "F", "L", "O", "A", "T">>,
      <<"d", ",", "l", ",", "a", ",", "c", ",", "q">>,        \* 5 names
      <<"a", ",", ",", "b">>,                                 \* a,,b
      <<",", ",", ",">>,                                      \* ,,,
      <<"t", "r", "u", "e">>,                                 \* true
      <<"1", "e", "3", "9">>,                                 \* 1e39
      <<"2", "e", "3", "0", "8">>,                            \* 2e308
      <<"1", "_", "0">>,                                      \* 1_0
      <<"2", "1", "4", "7", "4", "8", "3", "6", "4", "8">>,   \* 1<<31
      <<"4", "2", "9", "4", "9", "6", "7", "2", "9", "6">> }  \* 1<<32

RawValues == SeqsUpTo(RawAlphabet, MaxRawLen) \cup RawSamples

GetInputs ==
    { << <<"[", "s", "]">>, <<"k", "=">> \o raw >> : raw \in RawValues }

GetSections == { <<"s">>, <<"t">> }
GetKeys == { <<"k">>, <<"j">> }

IntDefaults == {7, -1}
UintDefaults == {U32(0, 7), U32(0, 0)}
FloatDefaults == {Num(FALSE, 10, <<2, 5>>, 1), Num(FALSE, 10, <<>>, 0)}
StringDefaults == { <<"d">>, <<>> }
Separators == { <<>>, <<",">>, <<",", ",">> }

\* What a call leaves in ret: the method, its arguments and its result.
Returned(op, section, key, def, sep, val) ==
    [op |-> op, section |-> section, key |-> key, def |-> def, sep |-> sep,
     val |-> val]

CallGetInt(section, key, def) ==
    /\ ret' = Returned("GetInt", section, key, def, <<>>, GetInt(section, key, def))
    /\ UNCHANGED <<sections, buffer, call, input>>

CallGetUint(section, key, def) ==
    /\ ret' = Returned("GetUint", section, key, def, <<>>, GetUint(section, key, def))
    /\ UNCHANGED <<sections, buffer, call, input>>

CallGetFloat(section, key, def) ==
    /\ ret' = Returned("GetFloat", section, key, def, <<>>, GetFloat(section, key, def))
    /\ UNCHANGED <<sections, buffer, call, input>>

CallGetBool(section, key, def) ==
    /\ ret' = Returned("GetBool", section, key, def, <<>>, GetBool(section, key, def))
    /\ UNCHANGED <<sections, buffer, call, input>>

CallGetString(section, key, def) ==
    /\ ret' = Returned("GetString", section, key, def, <<>>, GetString(section, key, def))
    /\ UNCHANGED <<sections, buffer, call, input>>

CallGetStringSlice(section, key, def, sep) ==
    /\ ret' = Returned("GetStringSlice", section, key, def, sep,
                       GetStringSlice(section, key, def, sep))
    /\ UNCHANGED <<sections, buffer, call, input>>

CallKeyExists(section, key) ==
    /\ ret' = Returned("KeyExists", section, key, FALSE, <<>>, KeyExists(section, key))
    /\ UNCHANGED <<sections, buffer, call, input>>

CallSectionExists(section) ==
    /\ ret' = Returned("SectionExists", section, <<>>, FALSE, <<>>, SectionExists(section))
    /\ UNCHANGED <<sections, buffer, call, input>>

\* The caller loads its content into the new instance.
GetLoad ==
    /\ call.op = "NewIni"
    /\ LoadFromBytes(Join(input))
    /\ ret' = NoRet
    /\ UNCHANGED input

InitGet ==
    /\ NewIni
    /\ input \in GetInputs
    /\ ret = NoRet

NextGet ==
    \/ GetLoad
    \/ \E section \in GetSections, key \in GetKeys :
          \/ \E def \in IntDefaults : CallGetInt(section, key, def)
          \/ \E def \in UintDefaults : CallGetUint(section, key, def)
          \/ \E def \in FloatDefaults : CallGetFloat(section, key, def)
          \/ \E def \in BOOLEAN : CallGetBool(section, key, def)
          \/ \E def \in StringDefaults : CallGetString(section, key, def)
          \/ \E def \in StringDefaults, sep \in Separators :
                CallGetStringSlice(section, key, def, sep)
          \/ CallKeyExists(section, key)
          \/ CallSectionExists(section)

SpecGet == InitGet /\ [][NextGet]_vars

----------------------------------------------------------------------------
(* The claims about the accessors, under SpecGet.  ret holds the last call *)
(* and the Store has not changed since.                                    *)

\* The raw value the last call resolved.
RetRaw == getString(ret.section, ret.key)

\* The section or the key of the last call does not exist.
RetAbsent == ~KeyExists(ret.section, ret.key)

RECURSIVE Count(_, _)
Count(s, sep) ==
    IF Index(s, sep) = 0 THEN 0
    ELSE 1 + Count(SubSeq(s, Index(s, sep) + Len(sep), Len(s)), sep)

\* The pieces joined by sep.
RECURSIVE JoinWith(_, _)
JoinWith(parts, sep) ==
    IF parts = <<>> THEN <<>>
    ELSE IF Len(parts) = 1 THEN parts[1]
    ELSE parts[1] \o sep \o JoinWith(Tail(parts), sep)

\* C8: with a non-empty separator GetStringSlice returns the raw value cut
\* at every occurrence of the separator (occurrences + 1 elements, which
\* joined by the separator give the raw value back), every empty element
\* replaced by the default and every other element unchanged; an absent
\* key yields [def].
C8_SliceSplitsAndDefaults ==
    (ret.op = "GetStringSlice" /\ ret.sep # <<>>) =>
        LET parts == Split(RetRaw, ret.sep)
        IN  /\ Len(ret.val) = Count(RetRaw, ret.sep) + 1
            /\ Len(parts) = Len(ret.val)
            /\ JoinWith(parts, ret.sep) = RetRaw
            /\ \A i \in 1..Len(parts) :
                  /\ \A j \in 1..(Len(parts[i]) - Len(ret.sep) + 1) :
                        SubSeq(parts[i], j, j + Len(ret.sep) - 1) # ret.sep
                  /\ ret.val[i] = IF parts[i] = <<>> THEN ret.def ELSE parts[i]
            /\ RetAbsent => ret.val = <<ret.def>>

\* C8's case: a value with an empty element and a non-empty one was split,
\* the empty one replaced by the default.
C8_Witness ==
    /\ ret.op = "GetStringSlice"
    /\ ret.sep = <<",">>
    /\ ret.def = <<"d">>
    /\ RetRaw = <<"a", ",", ",", "b">>
    /\ ret.val = << <<"a">>, <<"d">>, <<"b">> >>

\* C9: GetStringSlice on an absent key or section with the empty separator
\* yields a one-element list holding the empty string.
C9_AbsentEmptySepOneElement ==
    (ret.op = "GetStringSlice" /\ ret.sep = <<>> /\ RetAbsent)
        => ret.val = << <<>> >>

\* C9, amended: GetStringSlice on an absent key or section with the empty
\* separator yields the empty list, whatever the default is.
C9_AbsentEmptySepNoElement ==
    (ret.op = "GetStringSlice" /\ ret.sep = <<>> /\ RetAbsent)
        => (ret.val = <<>> /\ Len(ret.val) = 0)

\* C9's case: the call was made with a default that is not empty.
C9_Witness ==
    /\ ret.op = "GetStringSlice"
    /\ ret.sep = <<>>
    /\ RetAbsent
    /\ ret.def = <<"d">>
    /\ Len(ret.val) = 0

====
